---------------------------- MODULE Spec2Model ----------------------------
(***************************************************************************)
(* Model of uk_tax_calculator/calculator.py.                               *)
(*                                                                         *)
(* Money.  An amount (a salary, a threshold, a spread portion) is an       *)
(* integer number of half pennies: the only division in the program is     *)
(* the halving of the personal-allowance taper, and every amount given to  *)
(* the penny is an even number of half pennies, so that halving is exact,  *)
(* as it is for decimal.Decimal.                                           *)
(*                                                                         *)
(* A decimal that went through a rate is a record [n, x]: n counts         *)
(* hundredths of a half penny (1/200 of a penny) and x is what the rate    *)
(* constants add on top.  The rates are built from binary floats           *)
(* (decimal.Decimal(0.2)), so each is a little more than its nominal       *)
(* value: Decimal(0.2) = 0.2 + 1.1102...E-17.  x accumulates that excess   *)
(* in units of 1E-21 per half penny; it is far too small to reach the next *)
(* 1/200 of a penny and far too large to be lost in the 28 significant     *)
(* digits of the decimal context, so it decides exactly the ties of        *)
(* quantize and nothing else.                                              *)
(***************************************************************************)
EXTENDS Integers, Sequences, FiniteSets, TLC

VARIABLES call, result, init_args, spread_calls, provider_queried, prev

vars == <<call, result, init_args, spread_calls, provider_queried, prev>>

(***************************************************************************)
(* Bounds of the model.                                                    *)
(***************************************************************************)
MaxLen == 3
MaxBands == 2
MaxValue == 5
MaxCheckpoint == 3
MaxIncome == 12
MaxLimit == 3
MaxSalary == 60
MaxAdjustment == 2
MaxAmount == 8

(***************************************************************************)
(* Constants of the program.                                               *)
(***************************************************************************)
ZERO == 0
PENCE == 200
Infinity == 1000000

Rate(pct, exc) == [pct |-> pct, exc |-> exc]

ZeroRate == Rate(ZERO, ZERO)
TAX_BASIC_RATE == Rate(20, 11102)
TAX_HIGHER_RATE == Rate(40, 22204)
TAX_ADDITIONAL_RATE == Rate(45, 11102)
NI_BASIC_RATE == Rate(8, 1665)
NI_ADDITIONAL_RATE == Rate(2, 416)

TaxYear ==
    {"2019/2020", "2020/2021", "2021/2022", "2022/2023", "2023/2024", "2024/2025"}

None == [fn |-> "none"]

(***************************************************************************)
(* Arithmetic.                                                             *)
(***************************************************************************)
Min(a, b) == IF a <= b THEN a ELSE b

Max(a, b) == IF a >= b THEN a ELSE b

\* interval[1] - interval[0], where only the upper end may be infinite
Width(lo, hi) == IF hi = Infinity THEN Infinity ELSE hi - lo

\* min(value_to_spread, width) with a possibly infinite width
MinWidth(value, width) == IF width = Infinity THEN value ELSE Min(value, width)

\* a decimal amount untouched by any rate
Exact(amount) == [n |-> 100 * amount, x |-> ZERO]

DecAdd(a, b) == [n |-> a.n + b.n, x |-> a.x + b.x]

DecSub(a, b) == [n |-> a.n - b.n, x |-> a.x - b.x]

\* amount * rate
DecMul(amount, rate) == [n |-> amount * rate.pct, x |-> amount * rate.exc]

RECURSIVE SumSeq(_)
SumSeq(s) == IF s = <<>> THEN ZERO ELSE Head(s) + SumSeq(Tail(s))

(***************************************************************************)
(* Decimal.quantize(PENCE) under the default context (ROUND_HALF_EVEN):    *)
(* the result is a whole number of pennies.                                *)
(***************************************************************************)
quantize_half_up(d) ==
    LET q == d.n \div PENCE
        r == d.n % PENCE
        half == PENCE \div 2
    IN  IF \/ r > half
           \/ /\ r = half
              /\ \/ d.x > 0
                 \/ d.x = 0 /\ d.n >= 0
        THEN q + 1
        ELSE q

quantize(d) ==
    LET q == d.n \div PENCE
        r == d.n % PENCE
        half == PENCE \div 2
    IN  IF \/ r > half
           \/ /\ r = half
              /\ \/ d.x > 0
                 \/ d.x = 0 /\ q % 2 = 1
        THEN q + 1
        ELSE q

(***************************************************************************)
(* _spread_over_checkpoints: the loop over pairwise([ZERO, *checkpoints])  *)
(* and the trailing leftover.                                              *)
(***************************************************************************)
RECURSIVE SpreadLoopKeepsWidth(_, _, _, _)
SpreadLoopKeepsWidth(value_to_spread, lower, checkpoints, spread_values) ==
    IF checkpoints = <<>>
    THEN [value_to_spread |-> value_to_spread, spread_values |-> spread_values]
    ELSE LET width == Width(lower, Head(checkpoints))
             spread_value == MinWidth(value_to_spread, width)
         IN  SpreadLoopKeepsWidth(value_to_spread - (Head(checkpoints) - lower),
                                  Head(checkpoints), Tail(checkpoints),
                                  Append(spread_values, spread_value))

RECURSIVE SpreadLoopNoMin(_, _, _, _)
SpreadLoopNoMin(value_to_spread, lower, checkpoints, spread_values) ==
    IF checkpoints = <<>>
    THEN [value_to_spread |-> value_to_spread, spread_values |-> spread_values]
    ELSE LET spread_value == IF Head(checkpoints) = Infinity
                             THEN value_to_spread
                             ELSE Head(checkpoints) - lower
         IN  SpreadLoopNoMin(value_to_spread - spread_value,
                             Head(checkpoints), Tail(checkpoints),
                             Append(spread_values, spread_value))

RECURSIVE SpreadLoop(_, _, _, _)
SpreadLoop(value_to_spread, lower, checkpoints, spread_values) ==
    IF checkpoints = <<>>
    THEN [value_to_spread |-> value_to_spread, spread_values |-> spread_values]
    ELSE LET width == Width(lower, Head(checkpoints))
             spread_value == MinWidth(value_to_spread, width)
         IN  SpreadLoop(value_to_spread - spread_value,
                        Head(checkpoints), Tail(checkpoints),
                        Append(spread_values, spread_value))

spread_drops_leftover(value_to_spread, checkpoints) ==
    SpreadLoop(value_to_spread, ZERO, checkpoints, <<>>).spread_values

spread_appends_zero_leftover(value_to_spread, checkpoints) ==
    LET done == SpreadLoop(value_to_spread, ZERO, checkpoints, <<>>)
    IN  IF done.value_to_spread >= ZERO
        THEN Append(done.spread_values, done.value_to_spread)
        ELSE done.spread_values

_spread_over_checkpoints(value_to_spread, checkpoints) ==
    LET done == SpreadLoop(value_to_spread, ZERO, checkpoints, <<>>)
    IN  IF done.value_to_spread > ZERO
        THEN Append(done.spread_values, done.value_to_spread)
        ELSE done.spread_values

(***************************************************************************)
(* _calculate_contributions: sum(amount * rate for amount, rate in         *)
(* zip(amounts, rates)), start=ZERO.  zip stops at the shorter list.       *)
(***************************************************************************)
RECURSIVE SumProducts(_, _)
SumProducts(amounts, rates) ==
    IF amounts = <<>> \/ rates = <<>>
    THEN Exact(ZERO)
    ELSE DecAdd(DecMul(Head(amounts), Head(rates)),
                SumProducts(Tail(amounts), Tail(rates)))

_calculate_contributions(contributing_amount, checkpoints, rates) ==
    LET amounts == _spread_over_checkpoints(contributing_amount, checkpoints)
    IN  SumProducts(amounts, rates)

(***************************************************************************)
(* _calculate_personal_allowance.  Amounts are even numbers of half        *)
(* pennies, so the division by two is exact.                               *)
(***************************************************************************)
Taper(taxable_income, personal_allowance_lower_limit, personal_allowance_upper_limit) ==
    Max(ZERO,
        personal_allowance_lower_limit
        - (Max(taxable_income - personal_allowance_upper_limit, ZERO) \div 2))

allowance_without_taper(taxable_income, personal_allowance_lower_limit, personal_allowance_upper_limit) ==
    IF taxable_income <= personal_allowance_lower_limit
    THEN taxable_income
    ELSE personal_allowance_lower_limit

allowance_taper_added(taxable_income, personal_allowance_lower_limit, personal_allowance_upper_limit) ==
    IF taxable_income <= personal_allowance_lower_limit
    THEN taxable_income
    ELSE Max(ZERO,
             personal_allowance_lower_limit
             + (Max(taxable_income - personal_allowance_upper_limit, ZERO) \div 2))

_calculate_personal_allowance(taxable_income, personal_allowance_lower_limit, personal_allowance_upper_limit) ==
    IF taxable_income <= personal_allowance_lower_limit
    THEN taxable_income
    ELSE Taper(taxable_income, personal_allowance_lower_limit,
               personal_allowance_upper_limit)

(***************************************************************************)
(* NetIncome and its __post_init__: every monetary field is quantized.     *)
(* The fields of the constructed value are whole numbers of pennies.       *)
(***************************************************************************)
Deduction(name, amount) == [name |-> name, amount |-> amount]

RoundDeductions(other_deductions) ==
    [i \in 1..Len(other_deductions) |->
        Deduction(other_deductions[i].name, quantize(other_deductions[i].amount))]

NetIncome(fields) ==
    [salary |-> quantize(fields.salary),
     tax_year |-> fields.tax_year,
     pre_tax_adjustments |-> quantize(fields.pre_tax_adjustments),
     taxable_income |-> quantize(fields.taxable_income),
     personal_allowance |-> quantize(fields.personal_allowance),
     tax |-> quantize(fields.tax),
     national_insurance |-> quantize(fields.national_insurance),
     other_deductions |-> RoundDeductions(fields.other_deductions),
     total_deductions |-> quantize(fields.total_deductions),
     take_home_pay |-> quantize(fields.take_home_pay)]

(***************************************************************************)
(* TaxBands.from_tax_year.  The query reads the year's row of              *)
(* tax-bands.csv; TaxBandsRows stands for the rows it can answer with,     *)
(* thresholds scaled down to a few pennies (in half pennies) and ordered   *)
(* as the bands of a tax year are.  The weekly National Insurance          *)
(* thresholds are annualised by the query.                                 *)
(***************************************************************************)
TaxBandsRows ==
    {[personal_allowance |-> pa,
      income_limit_for_personal_allowance |-> limit,
      tax_basic_rate |-> 40,
      tax_higher_rate |-> higher,
      ni_primary_threshold |-> 1,
      ni_upper_earnings_limit |-> uel] :
        pa \in {20, 26}, limit \in {16, 60}, higher \in {80, 100}, uel \in {1, 2}}

from_tax_year(row) ==
    [personal_allowance |-> row.personal_allowance,
     income_limit_for_personal_allowance |-> row.income_limit_for_personal_allowance,
     tax_basic_rate_limit |-> row.tax_basic_rate,
     tax_higher_rate_limit |-> row.tax_higher_rate,
     ni_primary_threshold |-> row.ni_primary_threshold * 52,
     ni_upper_earnings_limit |-> row.ni_upper_earnings_limit * 52]

(***************************************************************************)
(* calculate_tax.  row is what the tax-band provider answers for the year. *)
(* The outcome records what the call did besides returning: whether the    *)
(* provider was queried, the checkpoint lists handed to the spreader and   *)
(* the arguments NetIncome was constructed with.                           *)
(***************************************************************************)
tax_year_unchecked(tax_year) == TRUE

IsTaxYear(tax_year) == tax_year \in TaxYear

TAX_RATES == <<ZeroRate, TAX_BASIC_RATE, TAX_HIGHER_RATE, TAX_ADDITIONAL_RATE>>

NI_RATES == <<ZeroRate, NI_BASIC_RATE, NI_ADDITIONAL_RATE>>

calculate_tax(tax_year, salary, pre_tax_adjustments, row) ==
    IF ~IsTaxYear(tax_year)
    THEN [raised |-> "ValueError",
          message |-> <<"Unknown tax year: ", tax_year>>,
          provider_queried |-> FALSE,
          spread_calls |-> <<>>,
          init_args |-> None]
    ELSE LET tax_bands == from_tax_year(row)
             salary_less_adjustments == salary - pre_tax_adjustments
             personal_allowance ==
                 _calculate_personal_allowance(
                     salary_less_adjustments,
                     tax_bands.personal_allowance,
                     tax_bands.income_limit_for_personal_allowance)
             tax_checkpoints ==
                 <<personal_allowance,
                   tax_bands.tax_basic_rate_limit,
                   tax_bands.tax_higher_rate_limit>>
             tax == _calculate_contributions(
                        salary_less_adjustments, tax_checkpoints, TAX_RATES)
             ni_checkpoints ==
                 <<tax_bands.ni_primary_threshold,
                   tax_bands.ni_upper_earnings_limit>>
             national_insurance ==
                 _calculate_contributions(salary, ni_checkpoints, NI_RATES)
             total_deductions == DecAdd(tax, national_insurance)
             take_home_pay ==
                 DecSub(Exact(salary_less_adjustments), total_deductions)
             fields ==
                 [salary |-> Exact(salary),
                  tax_year |-> tax_year,
                  pre_tax_adjustments |-> Exact(pre_tax_adjustments),
                  personal_allowance |-> Exact(personal_allowance),
                  taxable_income |->
                      Exact(salary_less_adjustments - personal_allowance),
                  tax |-> tax,
                  national_insurance |-> national_insurance,
                  other_deductions |-> <<>>,
                  total_deductions |-> total_deductions,
                  take_home_pay |-> take_home_pay]
         IN  [raised |-> "nothing",
              value |-> NetIncome(fields),
              provider_queried |-> TRUE,
              spread_calls |-> <<tax_checkpoints, ni_checkpoints>>,
              init_args |-> fields]

(***************************************************************************)
(* Inputs.                                                                 *)
(***************************************************************************)
\* the lists of at most maxlen checkpoints over S, infinite at most in the
\* last place: an infinite checkpoint before another one makes the next
\* width inf - inf, which decimal refuses to compute
CheckpointLists(S, maxlen) ==
    {c \in UNION {[1..n -> S \cup {Infinity}] : n \in 0..maxlen} :
        \A i \in 1..(Len(c) - 1) : c[i] # Infinity}

RateInputs == {ZeroRate, TAX_BASIC_RATE, NI_ADDITIONAL_RATE}

TaxYearInputs == {"2019/2020", "2024/2025", "2025/2026", "bad-year"}

\* amounts given to the penny, in half pennies
Pennies(lo, hi) == {2 * p : p \in lo..hi}

\* decimals given to the quarter penny: every fourth one is a tie of quantize
QuarterPennies == {[n |-> 50 * k, x |-> ZERO] : k \in (-MaxAmount)..MaxAmount}

(***************************************************************************)
(* The program: nothing has been called after the import; then any of the  *)
(* functions is called with any input and returns.  The functions keep no  *)
(* state, so a call does not depend on the calls before it: the caller     *)
(* takes the result (Return) before it calls again, except that a second   *)
(* _calculate_personal_allowance with the same limits remembers the first, *)
(* so that two incomes can be compared.                                    *)
(***************************************************************************)
Init ==
    /\ call = None
    /\ result = None
    /\ init_args = None
    /\ spread_calls = <<>>
    /\ provider_queried = FALSE
    /\ prev = None

SpreadOverCheckpoints ==
    /\ call = None
    /\ \E value_to_spread \in (-2)..MaxValue,
       checkpoints \in CheckpointLists((-1)..MaxCheckpoint, MaxLen) :
        /\ call' = [fn |-> "_spread_over_checkpoints",
                    value_to_spread |-> value_to_spread,
                    checkpoints |-> checkpoints]
        /\ result' = [spread_values |->
                          _spread_over_checkpoints(value_to_spread, checkpoints)]
        /\ spread_calls' = <<checkpoints>>
        /\ init_args' = None
        /\ provider_queried' = FALSE
        /\ prev' = None

CalculateContributions ==
    /\ call = None
    /\ \E contributing_amount \in 0..MaxValue,
       checkpoints \in CheckpointLists(0..MaxCheckpoint, MaxBands) :
        \E rates \in [1..(Len(checkpoints) + 1) -> RateInputs] :
            /\ call' = [fn |-> "_calculate_contributions",
                        contributing_amount |-> contributing_amount,
                        checkpoints |-> checkpoints,
                        rates |-> rates]
            /\ result' = [contributions |->
                              _calculate_contributions(
                                  contributing_amount, checkpoints, rates)]
            /\ spread_calls' = <<checkpoints>>
            /\ init_args' = None
            /\ provider_queried' = FALSE
            /\ prev' = None

CalculatePersonalAllowance ==
    /\ call = None
    /\ \E taxable_income \in Pennies(0, MaxIncome),
          lower_limit \in Pennies(0, MaxLimit),
          upper_limit \in Pennies(0, MaxLimit) :
        /\ call' = [fn |-> "_calculate_personal_allowance",
                    taxable_income |-> taxable_income,
                    lower_limit |-> lower_limit,
                    upper_limit |-> upper_limit]
        /\ result' = [allowance |->
                          _calculate_personal_allowance(
                              taxable_income, lower_limit, upper_limit)]
        /\ prev' = None
        /\ spread_calls' = <<>>
        /\ init_args' = None
        /\ provider_queried' = FALSE

CalculatePersonalAllowanceAgain ==
    /\ call.fn = "_calculate_personal_allowance"
    /\ prev = None
    /\ \E taxable_income \in Pennies(0, MaxIncome) :
        /\ call' = [call EXCEPT !.taxable_income = taxable_income]
        /\ result' = [allowance |->
                          _calculate_personal_allowance(
                              taxable_income, call.lower_limit, call.upper_limit)]
        /\ prev' = [fn |-> call.fn,
                    taxable_income |-> call.taxable_income,
                    allowance |-> result.allowance]
        /\ UNCHANGED <<spread_calls, init_args, provider_queried>>

Return ==
    /\ call # None
    /\ call' = None
    /\ result' = None
    /\ init_args' = None
    /\ spread_calls' = <<>>
    /\ provider_queried' = FALSE
    /\ prev' = None

CalculateTax ==
    /\ call = None
    /\ \E tax_year \in TaxYearInputs,
       salary \in Pennies(-1, MaxSalary),
       pre_tax_adjustments \in Pennies(0, MaxAdjustment) \cup Pennies(MaxSalary + 1, MaxSalary + 1),
       row \in TaxBandsRows :
        LET outcome == calculate_tax(tax_year, salary, pre_tax_adjustments, row)
        IN  /\ call' = [fn |-> "calculate_tax",
                        tax_year |-> tax_year,
                        salary |-> salary,
                        pre_tax_adjustments |-> pre_tax_adjustments,
                        tax_bands |-> IF outcome.provider_queried
                                      THEN from_tax_year(row)
                                      ELSE None]
            /\ result' = IF outcome.raised = "nothing"
                         THEN [raised |-> "nothing", value |-> outcome.value]
                         ELSE [raised |-> outcome.raised,
                               message |-> outcome.message]
            /\ spread_calls' = outcome.spread_calls
            /\ init_args' = outcome.init_args
            /\ provider_queried' = outcome.provider_queried
            /\ prev' = None

ConstructNetIncome ==
    /\ call = None
    /\ \E a \in QuarterPennies, b \in QuarterPennies, c \in QuarterPennies,
       tax_year \in {"2024/2025"} :
        \E other_deductions \in {<<>>, <<Deduction("pension", c)>>} :
            LET fields == [salary |-> a,
                           tax_year |-> tax_year,
                           pre_tax_adjustments |-> b,
                           taxable_income |-> c,
                           personal_allowance |-> b,
                           tax |-> c,
                           national_insurance |-> a,
                           other_deductions |-> other_deductions,
                           total_deductions |-> b,
                           take_home_pay |-> a]
            IN  /\ call' = [fn |-> "NetIncome"]
                /\ result' = [raised |-> "nothing", value |-> NetIncome(fields)]
                /\ init_args' = fields
                /\ spread_calls' = <<>>
                /\ provider_queried' = FALSE
                /\ prev' = None

Next ==
    \/ SpreadOverCheckpoints
    \/ CalculateContributions
    \/ CalculatePersonalAllowance
    \/ CalculatePersonalAllowanceAgain
    \/ CalculateTax
    \/ ConstructNetIncome
    \/ Return

Spec == Init /\ [][Next]_vars

(***************************************************************************)
(* Vocabulary of the properties.                                           *)
(***************************************************************************)
NonDecreasing(c) == \A i \in 1..(Len(c) - 1) : c[i] <= c[i + 1]

\* c1 <= ... <= cn above c0 = 0
Ascending(c) == NonDecreasing(c) /\ (c # <<>> => c[1] >= 0)

\* c0 = 0, then the checkpoints
CheckpointAt(c, i) == IF i = 0 THEN 0 ELSE c[i]

Prefix(s, k) == [i \in 1..k |-> s[i]]

NonNegative(d) == d.n > 0 \/ (d.n = 0 /\ d.x >= 0)

MoneyFields ==
    {"salary", "pre_tax_adjustments", "taxable_income", "personal_allowance",
     "tax", "national_insurance", "total_deductions", "take_home_pay"}

\* p pennies is the decimal d rounded to the nearest penny, ties to the even penny
NearestTiesToEven(p, d) ==
    LET diff == 200 * p - d.n
    IN  \/ -100 < diff /\ diff < 100
        \/ diff = 100 /\ (d.x > 0 \/ (d.x = 0 /\ p % 2 = 0))
        \/ diff = -100 /\ (d.x < 0 \/ (d.x = 0 /\ p % 2 = 0))

\* p pennies is the decimal d rounded to the nearest penny, ties half-up
NearestTiesHalfUp(p, d) ==
    LET diff == 200 * p - d.n
    IN  \/ -100 < diff /\ diff < 100
        \/ diff = 100 /\ (d.x > 0 \/ (d.x = 0 /\ d.n >= 0))
        \/ diff = -100 /\ (d.x < 0 \/ (d.x = 0 /\ d.n < 0))

IsSpread == call.fn = "_spread_over_checkpoints"

IsContributions == call.fn = "_calculate_contributions"

IsAllowance == call.fn = "_calculate_personal_allowance"

Returned == call.fn = "calculate_tax" /\ result.raised = "nothing"

(***************************************************************************)
(* C1: calculate_tax with a tax year outside TaxYear raises a ValueError   *)
(* whose message includes the offending value; the tax-band provider is    *)
(* not queried, nothing is spread and no NetIncome is constructed,         *)
(* whatever the salary and the adjustments.                                *)
(***************************************************************************)
C1_InvalidTaxYear ==
    (call.fn = "calculate_tax" /\ call.tax_year \notin TaxYear) =>
        /\ result.raised = "ValueError"
        /\ \E i \in 1..Len(result.message) : result.message[i] = call.tax_year
        /\ ~provider_queried
        /\ call.tax_bands = None
        /\ spread_calls = <<>>
        /\ init_args = None
        /\ "value" \notin DOMAIN result

C1_Witness ==
    /\ call.fn = "calculate_tax"
    /\ call.tax_year = "bad-year"
    /\ call.salary > 0
    /\ call.pre_tax_adjustments > 0
    /\ result.raised = "ValueError"

(***************************************************************************)
(* C2: for a value V >= 0 and checkpoints 0 = c0 <= c1 <= ... <= cn, the   *)
(* i-th portion is max(0, min(V, ci) - c(i-1)); a zero-width interval      *)
(* gets a zero portion and every portion after the value is used up is     *)
(* zero.                                                                   *)
(***************************************************************************)
C2_Portions ==
    (IsSpread /\ call.value_to_spread >= 0 /\ Ascending(call.checkpoints)) =>
        LET V == call.value_to_spread
            c == call.checkpoints
        IN  /\ Len(result.spread_values) >= Len(c)
            /\ \A i \in 1..Len(c) :
                /\ result.spread_values[i] =
                       Max(0, MinWidth(V, c[i]) - CheckpointAt(c, i - 1))
                /\ c[i] = CheckpointAt(c, i - 1) => result.spread_values[i] = 0
                /\ SumSeq(Prefix(result.spread_values, i - 1)) = V =>
                       result.spread_values[i] = 0

C2_Witness ==
    /\ IsSpread
    /\ call.value_to_spread = 2
    /\ call.checkpoints = <<1, 1, 3>>
    /\ result.spread_values = <<1, 0, 1>>

(***************************************************************************)
(* C3 as stated: for every checkpoint list and every value the portions    *)
(* sum to the value.                                                       *)
(***************************************************************************)
C3_SumIsValue == IsSpread => SumSeq(result.spread_values) = call.value_to_spread

(***************************************************************************)
(* C3 amended: the portions sum to the value for every non-empty           *)
(* checkpoint list (in any order, the last possibly infinite) and every    *)
(* value, and for the empty list and every value >= 0.                     *)
(***************************************************************************)
C3_SumIsValueUnlessEmptyNegative ==
    (IsSpread /\ (call.checkpoints # <<>> \/ call.value_to_spread >= 0)) =>
        SumSeq(result.spread_values) = call.value_to_spread

C3_Witness ==
    /\ IsSpread
    /\ Len(call.checkpoints) = 3
    /\ call.checkpoints[1] = call.checkpoints[2]
    /\ call.checkpoints[3] = Infinity
    /\ call.value_to_spread > call.checkpoints[2]
    /\ call.checkpoints[2] > 0
    /\ SumSeq(result.spread_values) = call.value_to_spread

C5_RoundedHalfUp ==
    init_args # None =>
        /\ \A f \in MoneyFields :
               NearestTiesHalfUp(result.value[f], init_args[f])
        /\ Len(result.value.other_deductions) = Len(init_args.other_deductions)
        /\ \A i \in 1..Len(init_args.other_deductions) :
               NearestTiesHalfUp(result.value.other_deductions[i].amount,
                                 init_args.other_deductions[i].amount)

(***************************************************************************)
(* C5 amended: every monetary field of a constructed NetIncome is its      *)
(* input rounded to the nearest penny, ties to the even penny (the         *)
(* rounding of the default decimal context).                               *)
(***************************************************************************)
C5_RoundedHalfEven ==
    init_args # None =>
        /\ \A f \in MoneyFields :
               NearestTiesToEven(result.value[f], init_args[f])
        /\ Len(result.value.other_deductions) = Len(init_args.other_deductions)
        /\ \A i \in 1..Len(init_args.other_deductions) :
               /\ result.value.other_deductions[i].name =
                      init_args.other_deductions[i].name
               /\ NearestTiesToEven(result.value.other_deductions[i].amount,
                                    init_args.other_deductions[i].amount)

C5_Witness ==
    /\ call.fn = "NetIncome"
    /\ init_args.salary = [n |-> 100, x |-> 0]
    /\ result.value.salary = 0
    /\ init_args.tax = [n |-> 300, x |-> 0]
    /\ result.value.tax = 2
    /\ Len(init_args.other_deductions) = 1

(***************************************************************************)
(* C6: in every NetIncome calculate_tax returns,                           *)
(* total_deductions = tax + national_insurance.                            *)
(***************************************************************************)
C6_TotalDeductions ==
    Returned =>
        result.value.total_deductions =
            result.value.tax + result.value.national_insurance

(***************************************************************************)
(* C7: in every NetIncome calculate_tax returns,                           *)
(* taxable_income = (salary - pre_tax_adjustments) - personal_allowance.   *)
(***************************************************************************)
C7_TaxableIncome ==
    Returned =>
        result.value.taxable_income =
            (result.value.salary - result.value.pre_tax_adjustments)
            - result.value.personal_allowance

(***************************************************************************)
(* C8 as stated: at income = upper_limit <= lower_limit the taper formula  *)
(* gives what the income <= lower_limit branch returns; and when           *)
(* upper_limit > lower_limit, of two incomes upper_limit <= i1 < i2 the    *)
(* larger has the strictly smaller allowance.                              *)
(***************************************************************************)
C8_ContinuousAndStrict ==
    IsAllowance =>
        /\ (call.taxable_income = call.upper_limit
               /\ call.upper_limit <= call.lower_limit) =>
               Taper(call.taxable_income, call.lower_limit, call.upper_limit)
                   = result.allowance
        /\ (prev # None
               /\ call.upper_limit > call.lower_limit
               /\ call.upper_limit <= prev.taxable_income
               /\ prev.taxable_income < call.taxable_income) =>
               result.allowance < prev.allowance

(***************************************************************************)
(* C8 amended: at income = upper_limit <= lower_limit the taper formula    *)
(* gives what the income <= lower_limit branch returns exactly when        *)
(* upper_limit = lower_limit; and when upper_limit > lower_limit, of two   *)
(* incomes upper_limit <= i1 < i2 the larger never has the larger          *)
(* allowance, and has the strictly smaller one as long as the allowance    *)
(* of i1 is above zero.                                                    *)
(***************************************************************************)
C8_ContinuousAndMonotone ==
    IsAllowance =>
        /\ (call.taxable_income = call.upper_limit
               /\ call.upper_limit <= call.lower_limit) =>
               /\ result.allowance = call.taxable_income
               /\ Taper(call.taxable_income, call.lower_limit, call.upper_limit)
                      = result.allowance
                  <=> call.upper_limit = call.lower_limit
        /\ (prev # None
               /\ call.upper_limit > call.lower_limit
               /\ call.upper_limit <= prev.taxable_income
               /\ prev.taxable_income < call.taxable_income) =>
               /\ result.allowance <= prev.allowance
               /\ prev.allowance > 0 => result.allowance < prev.allowance

C8_Witness ==
    /\ IsAllowance
    /\ prev # None
    /\ call.upper_limit > call.lower_limit
    /\ call.upper_limit < prev.taxable_income
    /\ prev.taxable_income < call.taxable_income
    /\ prev.allowance > 0
    /\ prev.allowance < call.lower_limit
    /\ result.allowance > 0
    /\ result.allowance < prev.allowance

(***************************************************************************)
(* C9 as stated: for a contributing amount >= 0, n checkpoints >= 0 and    *)
(* n+1 rates >= 0 the contributions are never negative.                    *)
(***************************************************************************)
C9_NeverNegative == IsContributions => NonNegative(result.contributions)

(***************************************************************************)
(* C9 amended: for a contributing amount >= 0, n non-decreasing            *)
(* checkpoints >= 0 and n+1 rates >= 0 the contributions are never         *)
(* negative.                                                               *)
(***************************************************************************)
C9_NeverNegativeWhenAscending ==
    (IsContributions /\ NonDecreasing(call.checkpoints)) =>
        NonNegative(result.contributions)

C9_Witness ==
    /\ IsContributions
    /\ NonDecreasing(call.checkpoints)
    /\ Len(call.checkpoints) = 2
    /\ call.contributing_amount > call.checkpoints[1]
    /\ call.contributing_amount <= call.checkpoints[2]
    /\ call.rates[2] # ZeroRate
    /\ call.rates[3] # ZeroRate
    /\ result.contributions = DecMul(call.contributing_amount - call.checkpoints[1],
                       call.rates[2])

(***************************************************************************)
(* C10: in every call of calculate_tax that gets as far as the spreader,   *)
(* with bands personal_allowance <= basic_rate_limit <= higher_rate_limit  *)
(* and ni_primary_threshold <= ni_upper_earnings_limit, the effective      *)
(* personal allowance does not exceed the band's, and both checkpoint      *)
(* lists handed to the spreader are non-decreasing.                        *)
(***************************************************************************)
C10_CheckpointsAscend ==
    (/\ call.fn = "calculate_tax"
     /\ provider_queried
     /\ call.tax_bands.personal_allowance >= 0
     /\ call.tax_bands.personal_allowance <= call.tax_bands.tax_basic_rate_limit
     /\ call.tax_bands.tax_basic_rate_limit <= call.tax_bands.tax_higher_rate_limit
     /\ call.tax_bands.ni_primary_threshold <= call.tax_bands.ni_upper_earnings_limit) =>
        /\ Len(spread_calls) = 2
        /\ spread_calls[1][1] <= call.tax_bands.personal_allowance
        /\ Len(spread_calls[1]) = 3
        /\ spread_calls[1][2] = call.tax_bands.tax_basic_rate_limit
        /\ spread_calls[1][3] = call.tax_bands.tax_higher_rate_limit
        /\ spread_calls[2] = <<call.tax_bands.ni_primary_threshold,
                               call.tax_bands.ni_upper_earnings_limit>>
        /\ \A i \in 1..2 : NonDecreasing(spread_calls[i])

C10_Witness ==
    /\ call.fn = "calculate_tax"
    /\ provider_queried
    /\ call.salary - call.pre_tax_adjustments
           > call.tax_bands.income_limit_for_personal_allowance
    /\ call.salary - call.pre_tax_adjustments > call.tax_bands.personal_allowance
    /\ call.tax_bands.income_limit_for_personal_allowance
           > call.tax_bands.personal_allowance
    /\ call.pre_tax_adjustments > 0
    /\ spread_calls[1][1] > 0
    /\ spread_calls[1][1] < call.tax_bands.personal_allowance

=============================================================================
